---- MODULE Spec2Model ----
(***************************************************************************)
(* MicroShopGen: feature selection, configuration persistence and         *)
(* generator dispatch (src/microshopgen.py, src/generators/inventory.py). *)
(*                                                                         *)
(* A Python dict is modelled as a sequence of <<key, value>> records in   *)
(* insertion order, a Python list as a sequence, a file as a sequence of  *)
(* JSON tokens, and the output directory as a function from paths to the  *)
(* kind of content found there.                                           *)
(***************************************************************************)
EXTENDS Integers, Sequences, FiniteSets, TLC

\* ------------------------------------------------------------------------
\* Bounds of the model
\* ------------------------------------------------------------------------

\* longest "optional" array of a configuration file that exists before the
\* first run
MaxFileLen == 2

\* ------------------------------------------------------------------------
\* Feature catalog
\* ------------------------------------------------------------------------

CoreComponents == <<"gateway", "user", "catalog", "cart", "orders", "payments", "inventory">>

OptionalComponents == <<"reviews", "discounts", "admin">>

\* category -> components in definition order, and the required flag of each
FEATURES ==
    [c \in {"core", "optional"} |->
        IF c = "core"
        THEN [components |-> CoreComponents,
              required   |-> [i \in {"gateway", "user", "catalog", "cart", "orders", "payments", "inventory"} |-> TRUE]]
        ELSE [components |-> OptionalComponents,
              required   |-> [i \in {"reviews", "discounts", "admin"} |-> FALSE]]]

\* iteration order of FEATURES.items()
CategoryOrder == <<"core", "optional">>

Range(s) == {s[i] : i \in 1..Len(s)}

\* component ids the catalog defines for a category
ComponentIds(category) == Range(FEATURES[category].components)

\* `category in FEATURES and feature_id in FEATURES[category]["components"]`
InCatalog(category, feature_id) ==
    /\ category \in DOMAIN FEATURES
    /\ feature_id \in ComponentIds(category)

\* FEATURES[category]["components"][feature_id].get("required", False)
IsRequired(category, feature_id) ==
    /\ InCatalog(category, feature_id)
    /\ FEATURES[category].required[feature_id]

RequiredIds(category) == {i \in ComponentIds(category) : IsRequired(category, i)}

\* ------------------------------------------------------------------------
\* Python dict (insertion ordered) and list operations
\* ------------------------------------------------------------------------

DictKeys(d) == {d[i].k : i \in 1..Len(d)}

\* d[key]; only used where key is in the dict
DictGet(d, key) == d[CHOOSE i \in 1..Len(d) : d[i].k = key].v

\* d[key] = val: an existing key keeps its position, a new key goes last
DictSet(d, key, val) ==
    IF key \in DictKeys(d)
    THEN [i \in 1..Len(d) |-> IF d[i].k = key THEN [k |-> key, v |-> val] ELSE d[i]]
    ELSE Append(d, [k |-> key, v |-> val])

\* list.remove(x): removes the first occurrence
ListRemove(s, x) ==
    LET p == CHOOSE i \in 1..Len(s) : s[i] = x /\ \A j \in 1..(i - 1) : s[j] # x
    IN  SubSeq(s, 1, p - 1) \o SubSeq(s, p + 1, Len(s))

\* the set of ids selected in a category (empty when the key is missing)
SelectedSet(d, category) ==
    IF category \in DictKeys(d) THEN Range(DictGet(d, category)) ELSE {}

\* number of occurrences of x in a list
Occurrences(s, x) == Cardinality({i \in 1..Len(s) : s[i] = x})

\* ------------------------------------------------------------------------
\* JSON text: json.dump and json.load on token sequences
\* ------------------------------------------------------------------------

Punctuation == {"{", "}", "[", "]", ":", ","}

IsStr(t) == t \notin Punctuation /\ t # "EOF"

Tok(toks, i) == IF i \in 1..Len(toks) THEN toks[i] ELSE "EOF"

RECURSIVE DumpList(_)
DumpList(s) ==
    IF Len(s) = 0 THEN <<>>
    ELSE IF Len(s) = 1 THEN <<s[1]>>
    ELSE <<s[1], ",">> \o DumpList(Tail(s))

RECURSIVE DumpMembers(_)
DumpMembers(d) ==
    IF Len(d) = 0 THEN <<>>
    ELSE LET m == <<d[1].k, ":", "[">> \o DumpList(d[1].v) \o <<"]">>
         IN  IF Len(d) = 1 THEN m ELSE m \o <<",">> \o DumpMembers(Tail(d))

\* a bug of the serializer: only the first member is written
json_dump_first_member_only(d) == <<"{">> \o DumpMembers(SubSeq(d, 1, 1)) \o <<"}">>

\* json.dump(obj, f, indent=2): the tokens of the text (whitespace dropped)
json_dump(d) == <<"{">> \o DumpMembers(d) \o <<"}">>

ParseFail == [ok |-> FALSE, val |-> <<>>, next |-> 0]

\* elements of a non-empty array, starting at token i
RECURSIVE ParseElems(_, _, _)
ParseElems(toks, i, acc) ==
    IF ~IsStr(Tok(toks, i)) THEN ParseFail
    ELSE IF Tok(toks, i + 1) = "," THEN ParseElems(toks, i + 2, Append(acc, toks[i]))
    ELSE IF Tok(toks, i + 1) = "]" THEN [ok |-> TRUE, val |-> Append(acc, toks[i]), next |-> i + 2]
    ELSE ParseFail

\* an array starting at token i
ParseArray(toks, i) ==
    IF Tok(toks, i) # "[" THEN ParseFail
    ELSE IF Tok(toks, i + 1) = "]" THEN [ok |-> TRUE, val |-> <<>>, next |-> i + 2]
    ELSE ParseElems(toks, i + 1, <<>>)

\* members of a non-empty object, starting at token i; a repeated key keeps
\* its first position and takes the last value
RECURSIVE ParseMembers(_, _, _)
ParseMembers(toks, i, acc) ==
    IF ~(IsStr(Tok(toks, i)) /\ Tok(toks, i + 1) = ":") THEN ParseFail
    ELSE LET a == ParseArray(toks, i + 2)
         IN  IF ~a.ok THEN ParseFail
             ELSE IF Tok(toks, a.next) = ","
                  THEN ParseMembers(toks, a.next + 1, DictSet(acc, toks[i], a.val))
             ELSE IF Tok(toks, a.next) = "}"
                  THEN [ok |-> TRUE, val |-> DictSet(acc, toks[i], a.val), next |-> a.next + 1]
             ELSE ParseFail

\* json.load(f): ok is FALSE when the text is not one complete JSON object
json_load(toks) ==
    IF Tok(toks, 1) # "{" THEN ParseFail
    ELSE LET r == IF Tok(toks, 2) = "}"
                  THEN [ok |-> TRUE, val |-> <<>>, next |-> 3]
                  ELSE ParseMembers(toks, 2, <<>>)
         IN  IF r.ok /\ r.next = Len(toks) + 1 THEN r ELSE ParseFail

\* ------------------------------------------------------------------------
\* FeatureSelector
\* ------------------------------------------------------------------------

\* os.path.exists(config_file) is false
Absent == <<"absent">>

\* a bug of the default: every component is selected, required or not
default_config_all_components ==
    <<[k |-> "core", v |-> CoreComponents], [k |-> "optional", v |-> OptionalComponents]>>

\* the inner loop of _load_config: the required ids of the components in
\* comps are appended to the list of category
RECURSIVE AppendRequired(_, _, _)
AppendRequired(d, category, comps) ==
    IF comps = <<>> THEN d
    ELSE AppendRequired(
            IF IsRequired(category, Head(comps))
            THEN DictSet(d, category, Append(DictGet(d, category), Head(comps)))
            ELSE d,
            category, Tail(comps))

\* the outer loop of _load_config over FEATURES.items()
RECURSIVE ForEachCategory(_, _)
ForEachCategory(d, cats) ==
    IF cats = <<>> THEN d
    ELSE ForEachCategory(AppendRequired(d, Head(cats), FEATURES[Head(cats)].components), Tail(cats))

\* the else branch of _load_config, from {"core": [], "optional": []}
default_config ==
    ForEachCategory(<<[k |-> "core", v |-> <<>>], [k |-> "optional", v |-> <<>>]>>, CategoryOrder)

\* a bug of load: a file that does not parse is replaced by the defaults
load_config_falls_back_to_default(f) ==
    IF f # Absent /\ json_load(f).ok
    THEN [raised |-> FALSE, val |-> json_load(f).val, from |-> "file"]
    ELSE [raised |-> FALSE, val |-> default_config, from |-> "default"]

\* _load_config: the loaded state, where it came from, or a raised error
load_config(f) ==
    IF f # Absent
    THEN LET r == json_load(f)
         IN  IF r.ok
             THEN [raised |-> FALSE, val |-> r.val, from |-> "file"]
             ELSE [raised |-> TRUE, val |-> <<>>, from |-> "file"]
    ELSE [raised |-> FALSE, val |-> default_config, from |-> "default"]

\* the outcomes of toggle_feature, by the message it prints
UnknownFeature == "UnknownFeature"
RequiredFeatureImmutable == "RequiredFeatureImmutable"
Enabled == "Enabled"
Disabled == "Disabled"
KeyError == "KeyError"

\* a bug of the flip: enabling replaces the list by the one id
Flip_replaces_list(sel, category, feature_id) ==
    IF category \notin DictKeys(sel)
    THEN [ret |-> "raised", msg |-> KeyError, sel |-> sel]
    ELSE IF feature_id \in Range(DictGet(sel, category))
    THEN [ret |-> "True", msg |-> Disabled,
          sel |-> DictSet(sel, category, ListRemove(DictGet(sel, category), feature_id))]
    ELSE [ret |-> "True", msg |-> Enabled, sel |-> DictSet(sel, category, <<feature_id>>)]

\* a bug of the flip: the id is appended whether it is selected or not
Flip_always_appends(sel, category, feature_id) ==
    IF category \notin DictKeys(sel)
    THEN [ret |-> "raised", msg |-> KeyError, sel |-> sel]
    ELSE [ret |-> "True", msg |-> Enabled,
          sel |-> DictSet(sel, category, Append(DictGet(sel, category), feature_id))]

\* the flip at the end of toggle_feature (lines 137-144)
Flip(sel, category, feature_id) ==
    IF category \notin DictKeys(sel)
    THEN [ret |-> "raised", msg |-> KeyError, sel |-> sel]
    ELSE IF feature_id \in Range(DictGet(sel, category))
    THEN [ret |-> "True", msg |-> Disabled,
          sel |-> DictSet(sel, category, ListRemove(DictGet(sel, category), feature_id))]
    ELSE [ret |-> "True", msg |-> Enabled,
          sel |-> DictSet(sel, category, Append(DictGet(sel, category), feature_id))]

\* a bug of toggle: the required check is missing
toggle_without_required_check(sel, category, feature_id) ==
    IF ~InCatalog(category, feature_id)
    THEN [ret |-> "False", msg |-> UnknownFeature, sel |-> sel]
    ELSE Flip(sel, category, feature_id)

\* a bug of toggle: an id the category does not define is flipped like any other
toggle_without_catalog_check(sel, category, feature_id) ==
    IF IsRequired(category, feature_id)
    THEN [ret |-> "False", msg |-> RequiredFeatureImmutable, sel |-> sel]
    ELSE Flip(sel, category, feature_id)

\* a bug of toggle: the statuses printed are swapped
toggle_with_swapped_status(sel, category, feature_id) ==
    IF ~InCatalog(category, feature_id)
    THEN [ret |-> "False", msg |-> UnknownFeature, sel |-> sel]
    ELSE IF IsRequired(category, feature_id)
    THEN [ret |-> "False", msg |-> RequiredFeatureImmutable, sel |-> sel]
    ELSE LET r == Flip(sel, category, feature_id)
         IN  [r EXCEPT !.msg = IF r.msg = Enabled THEN Disabled
                                ELSE IF r.msg = Disabled THEN Enabled ELSE r.msg]

\* toggle_feature: the value returned, the message printed, the state after
toggle_feature(sel, category, feature_id) ==
    IF ~InCatalog(category, feature_id)
    THEN [ret |-> "False", msg |-> UnknownFeature, sel |-> sel]
    ELSE IF IsRequired(category, feature_id)
    THEN [ret |-> "False", msg |-> RequiredFeatureImmutable, sel |-> sel]
    ELSE Flip(sel, category, feature_id)

\* how far a write of text can get: the open fails (-1), nothing reaches the
\* disk, the text is cut before its last token, all of it is written
WritePoints(text) == {-1, 0, Len(text) - 1, Len(text)}

\* a bug of save: the file is opened for writing and closed, nothing is dumped
save_config_writes_nothing(sel, f, k) ==
    IF k < 0 THEN [raised |-> TRUE, file |-> f] ELSE [raised |-> k < Len(json_dump(sel)), file |-> <<>>]

\* save_config: open(config_file, "w") then json.dump.  k is how far the
\* write gets: -1 when the open itself fails, Len(text) when all is written
save_config(sel, f, k) ==
    LET text == json_dump(sel)
    IN  IF k < 0 THEN [raised |-> TRUE, file |-> f]
        ELSE IF k < Len(text) THEN [raised |-> TRUE, file |-> SubSeq(text, 1, k)]
        ELSE [raised |-> FALSE, file |-> text]

\* ------------------------------------------------------------------------
\* Generators
\* ------------------------------------------------------------------------

AllComponentIds == Range(CoreComponents) \cup Range(OptionalComponents)

\* what the output directory can hold: for each feature its subdirectory
\* (name "") and the two files of a service
Paths == AllComponentIds \X {"", "main.py", "Dockerfile"}

EmptyOut == [p \in Paths |-> "absent"]

\* a bug of generate_main: makedirs without exist_ok raises on an existing
\* directory
generate_main_without_exist_ok(o, fail) ==
    IF fail = "makedirs" \/ o[<<"inventory", "">>] # "absent" THEN [raised |-> TRUE, out |-> o]
    ELSE LET o1 == [o EXCEPT ![<<"inventory", "">>] = "dir"]
         IN  IF fail = "write"
             THEN [raised |-> TRUE, out |-> [o1 EXCEPT ![<<"inventory", "main.py">>] = "partial"]]
             ELSE [raised |-> FALSE, out |-> [o1 EXCEPT ![<<"inventory", "main.py">>] = "template"]]

\* InventoryServiceGenerator.generate_main; fail names the call that raises
generate_main(o, fail) ==
    IF fail = "makedirs" THEN [raised |-> TRUE, out |-> o]
    ELSE LET o1 == [o EXCEPT ![<<"inventory", "">>] = "dir"]
         IN  IF fail = "write"
             THEN [raised |-> TRUE, out |-> [o1 EXCEPT ![<<"inventory", "main.py">>] = "partial"]]
             ELSE [raised |-> FALSE, out |-> [o1 EXCEPT ![<<"inventory", "main.py">>] = "template"]]

\* InventoryServiceGenerator.generate_dockerfile: the text is built and dropped
generate_dockerfile(o) == [raised |-> FALSE, out |-> o]

\* InventoryServiceGenerator.generate
generate(o, fail) ==
    LET m == generate_main(o, fail)
    IN  IF m.raised THEN m ELSE generate_dockerfile(m.out)

\* the generator registry of generate_microservices
generators == {"inventory"}

\* a bug of the dispatcher: the registry is not consulted
dispatch_without_registry(feature, o, fail) == generate(o, fail)

\* the filesystem calls that can raise while a feature is dispatched: none
\* is made for a feature without a generator
FailPoints(feature) ==
    IF feature \in generators THEN {"none", "makedirs", "write"} ELSE {"none"}

\* the body of the loop of generate_microservices
dispatch(feature, o, fail) ==
    IF feature \in generators THEN generate(o, fail) ELSE [raised |-> FALSE, out |-> o]

\* ------------------------------------------------------------------------
\* Inputs
\* ------------------------------------------------------------------------

RECURSIVE SeqsUpTo(_, _)
SeqsUpTo(S, n) ==
    IF n = 0 THEN {<<>>}
    ELSE LET shorter == SeqsUpTo(S, n - 1)
         IN  shorter \cup {Append(s, x) : s \in shorter, x \in S}

\* "core" arrays of a configuration file found at the first run
FileCoreLists == {CoreComponents, <<"gateway">>}

\* "optional" arrays of such a file; "shipping" is an id the catalog lacks
FileOptionalLists == SeqsUpTo({"reviews", "shipping"}, MaxFileLen)

FileDocs ==
    UNION {{ <<[k |-> "core", v |-> c], [k |-> "optional", v |-> o]>>,
             <<[k |-> "optional", v |-> o], [k |-> "core", v |-> c]>>,
             <<[k |-> "core", v |-> c], [k |-> "optional", v |-> o], [k |-> "extras", v |-> <<>>]>> }
           : c \in FileCoreLists, o \in FileOptionalLists}
    \cup {<<[k |-> "core", v |-> c]>> : c \in FileCoreLists}

\* files that are not one JSON object: an empty file, a text cut short
MalformedFiles == {<<>>, <<"{", "core", ":", "[">>}

InitFiles == {Absent} \cup MalformedFiles \cup {json_dump(d) : d \in FileDocs}

\* the output directory before the first run: empty, or left by an older run
InitOuts ==
    {EmptyOut,
     [EmptyOut EXCEPT ![<<"inventory", "">>] = "dir", ![<<"inventory", "main.py">>] = "stale"]}

\* arguments of the toggle command
ToggleCategories == {"core", "optional", "extras"}
ToggleIds == {"gateway", "inventory", "reviews", "discounts", "shipping"}

\* ------------------------------------------------------------------------
\* State
\* ------------------------------------------------------------------------

VARIABLES
    pc,                 \* "start", "prompt", "gen", "exited", "crashed"
    config_file,        \* content of the configuration file, or Absent
    selected_features,  \* FeatureSelector.selected_features
    origin,             \* branch of _load_config that built selected_features
    pending,            \* features the loop of generate_microservices has yet to visit
    out,                \* the output directory
    last                \* the last operation: command, arguments, result, and what
                        \* it worked on as it was before (the selection; the output
                        \* directory for a step of the generation loop)

vars == <<pc, config_file, selected_features, origin, pending, out, last>>

Op(cmd, category, feature_id, ret, msg, pre) ==
    [cmd |-> cmd, category |-> category, feature_id |-> feature_id,
     ret |-> ret, msg |-> msg, pre |-> pre]

Init ==
    /\ pc = "start"
    /\ config_file \in InitFiles
    /\ selected_features = <<>>
    /\ origin = "none"
    /\ pending = <<>>
    /\ out \in InitOuts
    /\ last = Op("none", "-", "-", "-", "-", <<>>)

NoProcess == pc \in {"start", "exited", "crashed"}

\* main without --generate: FeatureSelector(config_file), then the session
MainInteractive ==
    /\ NoProcess
    /\ LET r == load_config(config_file)
       IN  /\ pc' = IF r.raised THEN "crashed" ELSE "prompt"
           /\ selected_features' = r.val
           /\ origin' = r.from
           /\ last' = Op("load", "-", "-", IF r.raised THEN "raised" ELSE "ok", "-", selected_features)
    /\ pending' = <<>>
    /\ UNCHANGED <<config_file, out>>

\* interactive_cli: toggle <category> <feature_id>
CmdToggle(category, feature_id) ==
    /\ pc = "prompt"
    /\ LET r == toggle_feature(selected_features, category, feature_id)
       IN  /\ selected_features' = r.sel
           /\ pc' = IF r.ret = "raised" THEN "crashed" ELSE "prompt"
           /\ last' = Op("toggle", category, feature_id, r.ret, r.msg, selected_features)
    /\ UNCHANGED <<config_file, origin, pending, out>>

\* interactive_cli: save
CmdSave ==
    /\ pc = "prompt"
    /\ \E k \in WritePoints(json_dump(selected_features)) :
        LET r == save_config(selected_features, config_file, k)
        IN  /\ config_file' = r.file
            /\ pc' = IF r.raised THEN "crashed" ELSE "prompt"
            /\ last' = Op("save", "-", "-", IF r.raised THEN "raised" ELSE "ok", "-", selected_features)
    /\ UNCHANGED <<selected_features, origin, pending, out>>

\* interactive_cli: done
CmdDone ==
    /\ pc = "prompt"
    /\ \E k \in WritePoints(json_dump(selected_features)) :
        LET r == save_config(selected_features, config_file, k)
        IN  /\ config_file' = r.file
            /\ pc' = IF r.raised THEN "crashed" ELSE "exited"
            /\ last' = Op("done", "-", "-", IF r.raised THEN "raised" ELSE "True", "-", selected_features)
    /\ UNCHANGED <<selected_features, origin, pending, out>>

\* a bug of exit: the dirty state is saved on the way out
CmdExit_saves ==
    /\ pc = "prompt"
    /\ pc' = "exited"
    /\ config_file' = json_dump(selected_features)
    /\ last' = Op("exit", "-", "-", "False", "-", selected_features)
    /\ UNCHANGED <<selected_features, origin, pending, out>>

\* interactive_cli: exit
CmdExit ==
    /\ pc = "prompt"
    /\ pc' = "exited"
    /\ last' = Op("exit", "-", "-", "False", "-", selected_features)
    /\ UNCHANGED <<config_file, selected_features, origin, pending, out>>

\* interactive_cli: an empty line
CmdEmpty ==
    /\ pc = "prompt"
    /\ last' = Op("empty", "-", "-", "-", "-", selected_features)
    /\ UNCHANGED <<pc, config_file, selected_features, origin, pending, out>>

\* a bug of the session: an unknown command ends it
CmdInvalid_ends_session ==
    /\ pc = "prompt"
    /\ pc' = "exited"
    /\ last' = Op("invalid", "-", "-", "-", "Invalid command", selected_features)
    /\ UNCHANGED <<config_file, selected_features, origin, pending, out>>

\* interactive_cli: any other word, or toggle without exactly two arguments
CmdInvalid ==
    /\ pc = "prompt"
    /\ last' = Op("invalid", "-", "-", "-", "Invalid command", selected_features)
    /\ UNCHANGED <<pc, config_file, selected_features, origin, pending, out>>

\* a bug of --generate: the loaded selection is written back, which creates
\* the file when there was none
MainGenerate_writes_config ==
    /\ NoProcess
    /\ LET r == load_config(config_file)
           ok == ~r.raised /\ {"core", "optional"} \subseteq DictKeys(r.val)
       IN  /\ selected_features' = r.val
           /\ origin' = r.from
           /\ pc' = IF ok THEN "gen" ELSE "crashed"
           /\ pending' = IF ok THEN DictGet(r.val, "core") \o DictGet(r.val, "optional") ELSE <<>>
           /\ config_file' = IF r.raised THEN config_file ELSE json_dump(r.val)
           /\ last' = Op("load", "-", "-",
                         IF r.raised THEN "raised" ELSE IF ok THEN "ok" ELSE KeyError,
                         "-", selected_features)
    /\ UNCHANGED <<out>>

\* main with --generate: generate_microservices up to the head of its loop
MainGenerate ==
    /\ NoProcess
    /\ LET r == load_config(config_file)
           ok == ~r.raised /\ {"core", "optional"} \subseteq DictKeys(r.val)
       IN  /\ selected_features' = r.val
           /\ origin' = r.from
           /\ pc' = IF ok THEN "gen" ELSE "crashed"
           /\ pending' = IF ok THEN DictGet(r.val, "core") \o DictGet(r.val, "optional") ELSE <<>>
           /\ last' = Op("load", "-", "-",
                         IF r.raised THEN "raised" ELSE IF ok THEN "ok" ELSE KeyError,
                         "-", selected_features)
    /\ UNCHANGED <<config_file, out>>

\* one iteration of the loop of generate_microservices
GenStep ==
    /\ pc = "gen"
    /\ pending # <<>>
    /\ \E fail \in FailPoints(Head(pending)) :
        LET r == dispatch(Head(pending), out, fail)
        IN  /\ out' = r.out
            /\ pc' = IF r.raised THEN "crashed" ELSE "gen"
            /\ last' = Op("generate", "-", Head(pending), IF r.raised THEN "raised" ELSE "ok", fail, out)
    /\ pending' = Tail(pending)
    /\ UNCHANGED <<config_file, selected_features, origin>>

\* the loop is over and main returns
GenReturn ==
    /\ pc = "gen"
    /\ pending = <<>>
    /\ pc' = "exited"
    /\ last' = Op("return", "-", "-", "ok", "-", selected_features)
    /\ UNCHANGED <<config_file, selected_features, origin, pending, out>>

Next ==
    \/ MainInteractive
    \/ \E category \in ToggleCategories, feature_id \in ToggleIds : CmdToggle(category, feature_id)
    \/ CmdSave
    \/ CmdDone
    \/ CmdExit
    \/ CmdEmpty
    \/ CmdInvalid
    \/ MainGenerate
    \/ GenStep
    \/ GenReturn

Spec == Init /\ [][Next]_vars

\* the first run finds no configuration file
InitFresh == Init /\ config_file = Absent

SpecFresh == InitFresh /\ [][Next]_vars

\* ------------------------------------------------------------------------
\* Properties
\* ------------------------------------------------------------------------

\* the last operation was a toggle command with these arguments
Toggled(category, feature_id) ==
    /\ last.cmd = "toggle"
    /\ last.category = category
    /\ last.feature_id = feature_id

\* C1: toggle on a pair the catalog marks required fails with
\* RequiredFeatureImmutable and leaves the selection as it was, whether the
\* selection came from the defaults or from a file; toggle("core", "gateway")
\* never removes gateway from the core list.
RequiredToggleFails ==
    (last.cmd = "toggle" /\ IsRequired(last.category, last.feature_id)) =>
        /\ last.ret = "False"
        /\ last.msg = RequiredFeatureImmutable
        /\ selected_features = last.pre
        /\ pc = "prompt"
        /\ "gateway" \in SelectedSet(last.pre, "core") => "gateway" \in SelectedSet(selected_features, "core")

RequiredToggleFailsWitness ==
    /\ Toggled("core", "gateway")
    /\ origin = "file"
    /\ last.msg = RequiredFeatureImmutable
    /\ "gateway" \in SelectedSet(selected_features, "core")

\* C2: in every state of a session (after load, whatever commands followed)
\* every id the catalog marks required is in the selected set of its category.
RequiredAlwaysSelected ==
    pc \in {"prompt", "exited"} /\ last.cmd \in {"load", "toggle", "save", "exit", "done"} =>
        \A c \in DOMAIN FEATURES : RequiredIds(c) \subseteq SelectedSet(selected_features, c)

\* C3: in every state of a session every id in the selected set of a
\* category is a component the catalog defines for that category.
NoOrphanSelections ==
    pc = "prompt" /\ last.cmd \in {"load", "toggle"} =>
        \A c \in DOMAIN FEATURES : SelectedSet(selected_features, c) \subseteq ComponentIds(c)

\* C4: two consecutive toggles of the same non-required pair bring the
\* selected set of every category back to what it was before the first.
ToggleTwiceRestores ==
    [][(/\ last.cmd = "toggle"
        /\ last.ret = "True"
        /\ pc = "prompt"
        /\ last'.cmd = "toggle"
        /\ last'.category = last.category
        /\ last'.feature_id = last.feature_id)
       => \A c \in DOMAIN FEATURES :
            SelectedSet(selected_features', c) = SelectedSet(last.pre, c)]_vars

\* C5: toggle with a category the catalog lacks, or an id that is not a
\* component of the category, fails with UnknownFeature and leaves the
\* selection as it was.
UnknownToggleFails ==
    (last.cmd = "toggle" /\ ~InCatalog(last.category, last.feature_id)) =>
        /\ last.ret = "False"
        /\ last.msg = UnknownFeature
        /\ selected_features = last.pre
        /\ pc = "prompt"

UnknownToggleFailsWitness ==
    /\ Toggled("optional", "shipping")
    /\ last.msg = UnknownFeature
    /\ "shipping" \in SelectedSet(selected_features, "optional")

\* C6: load without a configuration file gives a selection whose keys are
\* the catalog's categories and whose selected set, for each category, is
\* exactly the ids the catalog marks required there.
DefaultIsRequiredOnly ==
    (last.cmd = "load" /\ origin = "default") =>
        /\ last.ret = "ok"
        /\ DictKeys(selected_features) = DOMAIN FEATURES
        /\ Len(selected_features) = Cardinality(DOMAIN FEATURES)
        /\ \A c \in DOMAIN FEATURES : SelectedSet(selected_features, c) = RequiredIds(c)

DefaultIsRequiredOnlyWitness ==
    /\ last.cmd = "load"
    /\ origin = "default"
    /\ pc = "prompt"
    /\ SelectedSet(selected_features, "optional") = {}
    /\ "inventory" \in SelectedSet(selected_features, "core")

\* C7: a load that follows a completed save (the done command, then the next
\* run) gives a selection equal to the one that was saved.
SaveThenLoadRoundTrip ==
    [][(last.cmd = "done" /\ last.ret = "True" /\ last'.cmd = "load")
       => (last'.ret # "raised" /\ selected_features' = last.pre)]_vars

\* a run that loaded what the run before it saved: discounts is in no file
\* that exists before the first run
SaveThenLoadRoundTripWitness ==
    /\ last.cmd = "load"
    /\ last.ret = "ok"
    /\ origin = "file"
    /\ last.pre = selected_features
    /\ "discounts" \in SelectedSet(selected_features, "optional")

\* C8: generation on the default selection leaves inventory/ with the two
\* files, entry point and build descriptor, and no other feature directory.
DefaultGenerationOutput ==
    (pc = "exited" /\ last.cmd = "return" /\ origin = "default") =>
        /\ out[<<"inventory", "">>] = "dir"
        /\ out[<<"inventory", "main.py">>] = "template"
        /\ out[<<"inventory", "Dockerfile">>] # "absent"
        /\ \A f \in AllComponentIds \ {"inventory"} : out[<<f, "">>] = "absent"

\* C9: the dispatcher writes nothing for an id that has no registered
\* generator, and the run goes on to the next id.
UnregisteredSkipped ==
    [][(pc = "gen" /\ pending # <<>> /\ Head(pending) \notin generators)
       => (out' = out /\ pc' = "gen" /\ pending' = Tail(pending))]_vars

\* a run that returned although it met ids without a generator, and no
\* registered id at all
UnregisteredSkippedWitness ==
    /\ pc = "exited"
    /\ last.cmd = "return"
    /\ "gateway" \in SelectedSet(selected_features, "core")
    /\ "shipping" \in SelectedSet(selected_features, "optional")
    /\ "inventory" \notin SelectedSet(selected_features, "core")
    /\ out = EmptyOut

\* C10 as stated: a successful toggle returns "enabled" exactly when the id
\* is selected after the call and "disabled" exactly when it is not.
ToggleReturnsStatus ==
    (last.cmd = "toggle" /\ last.msg \in {Enabled, Disabled}) =>
        /\ last.ret = "enabled" <=> last.feature_id \in SelectedSet(selected_features, last.category)
        /\ last.ret = "disabled" <=> last.feature_id \notin SelectedSet(selected_features, last.category)

ListOf(d, category) == IF category \in DictKeys(d) THEN DictGet(d, category) ELSE <<>>

\* C10 amended: a successful toggle returns True and prints the status.
\* Enabled is printed exactly when the id was not selected before the call,
\* and the id is then appended; Disabled exactly when it was selected, and
\* one occurrence is then removed.  On the default state
\* toggle("optional", "reviews") prints Enabled and a second call Disabled.
ToggleReportsStatus ==
    (last.cmd = "toggle" /\ last.ret \notin {"False", "raised"}) =>
        LET before == ListOf(last.pre, last.category)
            after == ListOf(selected_features, last.category)
            id == last.feature_id
        IN  /\ last.ret = "True"
            /\ last.msg \in {Enabled, Disabled}
            /\ last.msg = Enabled <=> id \notin Range(before)
            /\ last.msg = Enabled => after = Append(before, id)
            /\ last.msg = Disabled => Occurrences(after, id) = Occurrences(before, id) - 1
            /\ (last.msg = Disabled /\ Occurrences(before, id) = 1) => id \notin Range(after)
            /\ (Toggled("optional", "reviews") /\ last.pre = default_config)
                 => (last.msg = Enabled /\ after = <<"reviews">>)
            /\ (Toggled("optional", "reviews")
                /\ last.pre = DictSet(default_config, "optional", <<"reviews">>))
                 => (last.msg = Disabled /\ selected_features = default_config)

ToggleReportsStatusWitness ==
    /\ Toggled("optional", "reviews")
    /\ origin = "default"
    /\ last.msg = Disabled
    /\ last.pre = DictSet(default_config, "optional", <<"reviews">>)
    /\ selected_features = default_config

\* a file that exists and is not one complete JSON object: it is empty or
\* does not end with the closing brace
Malformed(f) == f # Absent /\ (f = <<>> \/ f[Len(f)] # "}")

\* C11: load of a file that exists but is malformed raises; the process ends
\* without a session or a generation pass, no selection (the defaults least
\* of all) stands in for the file, and the file is left as it was.
MalformedLoadRaises ==
    [][(NoProcess /\ Malformed(config_file) /\ last'.cmd = "load")
       => /\ last'.ret = "raised"
          /\ pc' = "crashed"
          /\ origin' # "default"
          /\ selected_features' # default_config
          /\ pending' = <<>>
          /\ config_file' = config_file]_vars

MalformedLoadRaisesWitness ==
    /\ last.cmd = "load"
    /\ last.ret = "raised"
    /\ pc = "crashed"
    /\ Malformed(config_file)
    /\ Len(config_file) > 0

\* C12: save never leaves a truncated file: after a save, failed or not, the
\* file holds its complete previous content or the complete new content.
SaveNeverTruncates ==
    [][(pc = "prompt" /\ last'.cmd \in {"save", "done"})
       => config_file' \in {config_file, json_dump(selected_features)}]_vars

\* C13: exit does not touch the file, and neither do the toggles before it:
\* the file is what it was after the last save, or at start.
ExitLeavesFile ==
    [][(pc = "prompt" /\ last'.cmd \in {"toggle", "exit"}) => config_file' = config_file]_vars

\* a session that ended on exit with a toggle that was never saved
ExitLeavesFileWitness ==
    /\ last.cmd = "exit"
    /\ pc = "exited"
    /\ origin = "default"
    /\ config_file = Absent
    /\ "reviews" \in SelectedSet(selected_features, "optional")

\* C14: when the session ends through done, the file holds exactly the
\* selection as it was in memory when done was issued.
DoneSavesThenExits ==
    (last.cmd = "done" /\ pc = "exited") =>
        /\ last.ret = "True"
        /\ selected_features = last.pre
        /\ config_file = json_dump(last.pre)
        /\ json_load(config_file).ok
        /\ json_load(config_file).val = last.pre

\* done after toggles that no save had written: discounts is in no file
\* that exists before the first run
DoneSavesThenExitsWitness ==
    /\ last.cmd = "done"
    /\ pc = "exited"
    /\ origin = "default"
    /\ SelectedSet(selected_features, "optional") = {"reviews", "discounts"}
    /\ config_file = json_dump(selected_features)

\* C15: the session returns only on exit or done; an empty line, an unknown
\* command or a toggle without two arguments leaves selection and file as
\* they were and prompts again; the unknown command reports an error.
SessionEndsOnlyOnExitOrDone ==
    [][/\ (pc = "prompt" /\ pc' = "exited") => last'.cmd \in {"exit", "done"}
       /\ (pc = "prompt" /\ last'.cmd \in {"empty", "invalid"})
            => /\ pc' = "prompt"
               /\ selected_features' = selected_features
               /\ config_file' = config_file
       /\ (pc = "prompt" /\ last'.cmd = "invalid") => last'.msg = "Invalid command"
       /\ (pc = "prompt" /\ last'.cmd = "empty") => last'.msg = "-"]_vars

SessionEndsOnlyOnExitOrDoneWitness ==
    /\ last.cmd = "invalid"
    /\ last.msg = "Invalid command"
    /\ pc = "prompt"
    /\ "reviews" \in SelectedSet(selected_features, "optional")
    /\ config_file # json_dump(selected_features)

\* C16: in every state of a session the selection has exactly the keys core
\* and optional, so every file save writes has exactly these two keys.
TwoKeysOnly ==
    /\ pc = "prompt" => DictKeys(selected_features) = {"core", "optional"}
    /\ (last.cmd \in {"save", "done"} /\ last.ret \in {"ok", "True"})
         => (json_load(config_file).ok /\ DictKeys(json_load(config_file).val) = {"core", "optional"})

\* C17: a generation unit that runs when its directory (or its output) is
\* already there raises no error of its own and leaves what a single run
\* leaves: the directory and the entry point with the template content,
\* everything else as it was; a second run changes nothing.
EmitIdempotent ==
    (last.cmd = "generate" /\ last.feature_id \in generators /\ last.msg = "none") =>
        /\ last.ret = "ok"
        /\ pc = "gen"
        /\ out = [last.pre EXCEPT ![<<"inventory", "">>] = "dir",
                                  ![<<"inventory", "main.py">>] = "template"]
        /\ (last.pre[<<"inventory", "">>] = "dir" /\ last.pre[<<"inventory", "main.py">>] = "template")
             => out = last.pre

\* a second run over the output of a first one
EmitIdempotentWitness ==
    /\ last.cmd = "generate"
    /\ last.feature_id = "inventory"
    /\ last.ret = "ok"
    /\ last.pre[<<"inventory", "">>] = "dir"
    /\ last.pre[<<"inventory", "main.py">>] = "template"
    /\ out = last.pre

\* C18: the generation pass never creates or changes the configuration
\* file; it works on the parsed file when there is one and on the defaults
\* when there is none, and it never enters the interactive session.
GenerateLeavesConfig ==
    [][(pc = "gen" \/ pc' = "gen" \/ last'.ret = KeyError)
       => /\ config_file' = config_file
          /\ pc' # "prompt"
          /\ (pc # "gen" /\ pc' = "gen")
               => /\ selected_features' =
                        IF config_file = Absent THEN default_config ELSE json_load(config_file).val
                  /\ origin' = IF config_file = Absent THEN "default" ELSE "file"]_vars

\* a pass that ran to its end on the defaults and left no file behind
GenerateLeavesConfigWitness ==
    /\ pc = "exited"
    /\ last.cmd = "return"
    /\ origin = "default"
    /\ config_file = Absent
    /\ out[<<"inventory", "main.py">>] = "template"

\* C19: a successful toggle changes nothing but the membership of its id in
\* its category: the keys, the lists of the other categories and the
\* membership of every other id stay, and the file is not written; the file
\* changes only on save or done.
ToggleFrame ==
    [][/\ (pc = "prompt" /\ last'.cmd = "toggle")
            => /\ config_file' = config_file
               /\ last'.ret = "True"
                    => /\ DictKeys(selected_features') = DictKeys(selected_features)
                       /\ \A c \in DictKeys(selected_features) \ {last'.category} :
                            DictGet(selected_features', c) = DictGet(selected_features, c)
                       /\ \A i \in (AllComponentIds \cup {"shipping"}) \ {last'.feature_id} :
                            i \in SelectedSet(selected_features', last'.category)
                                <=> i \in SelectedSet(selected_features, last'.category)
       /\ config_file' # config_file => last'.cmd \in {"save", "done"}]_vars

\* a toggle that enabled discounts next to reviews, nothing saved
ToggleFrameWitness ==
    /\ Toggled("optional", "discounts")
    /\ last.msg = Enabled
    /\ "reviews" \in SelectedSet(last.pre, "optional")
    /\ "reviews" \in SelectedSet(selected_features, "optional")
    /\ config_file # json_dump(selected_features)

\* C20: when the first run finds no configuration file, no list of the
\* selection ever holds the same id twice.
NoDuplicates ==
    pc \in {"prompt", "gen", "exited"} =>
        \A n \in 1..Len(selected_features) :
            \A i \in Range(selected_features[n].v) : Occurrences(selected_features[n].v, i) = 1

\* a later run loaded what an earlier one saved and went on toggling
NoDuplicatesWitness ==
    /\ Toggled("optional", "reviews")
    /\ last.msg = Enabled
    /\ origin = "file"
    /\ ListOf(selected_features, "optional") = <<"discounts", "reviews">>

====
